---- MODULE Spec2Model ----
(***************************************************************************)
(* Model of scripts/dispatcher_json_stream.py: the event renderer          *)
(* (format_event, render_line), the two-handle stream multiplexer          *)
(* (stream_process) and the executor/reviewer scheduler (run_scheduler).   *)
(*                                                                         *)
(* Python strings are sequences of tokens (a token is a TLA+ string; the   *)
(* tokens " ", "\n" and "\t" are whitespace).  A Python value that a JSON field can hold is *)
(* a record [t, s]: t is "absent" (key missing), "null" (None), "str" or   *)
(* "num"; s is the string, or the decimal text of the number.              *)
(***************************************************************************)
EXTENDS Integers, Sequences, FiniteSets, TLC

\* ------------------------------------------------------------------ bounds
MaxLines == 3
MaxTasks == 2
MaxRoundsCap == 3

\* ------------------------------------------------------- python values
IsSpace(c) == c \in {" ", "\n", "\t"}
Absent == [t |-> "absent", s |-> <<>>]
NoneV == [t |-> "null", s |-> <<>>]
Str(s) == [t |-> "str", s |-> s]
Num(s) == [t |-> "num", s |-> s]

\* dict.get(key, default): the default only when the key is missing
Get(v, default) == IF v.t = "absent" THEN default ELSE v

\* Python truthiness of None, a string, a number
Truthy(v) ==
  CASE v.t = "str" -> v.s # <<>>
    [] v.t = "num" -> v.s # <<"0">>
    [] OTHER -> FALSE

\* f"{v}"
Fmt(v) == IF v.t \in {"str", "num"} THEN v.s ELSE <<"None">>

\* v == "literal"
Is(v, lit) == v.t = "str" /\ v.s = <<lit>>

RECURSIVE LStrip(_)
LStrip(s) == IF s # <<>> /\ IsSpace(Head(s)) THEN LStrip(Tail(s)) ELSE s

RECURSIVE RStrip(_)
RStrip(s) ==
  IF s # <<>> /\ IsSpace(s[Len(s)]) THEN RStrip(SubSeq(s, 1, Len(s) - 1)) ELSE s

\* str.strip()
Strip(s) == RStrip(LStrip(s))

\* v or ""
OrEmpty(v) == IF Truthy(v) THEN v ELSE Str(<<>>)

\* faulty variant of StripValue: the text is taken untrimmed
StripValue_Raw(w) ==
  IF w.t = "str" THEN [exc |-> "none", s |-> w.s]
  ELSE [exc |-> "AttributeError", s |-> <<>>]

\* w.strip(): a number has no strip()
StripValue(w) ==
  IF w.t = "str" THEN [exc |-> "none", s |-> Strip(w.s)]
  ELSE [exc |-> "AttributeError", s |-> <<>>]

\* (item.get("text") or "").strip()
TextOf(item) == StripValue(OrEmpty(Get(item.text, NoneV)))

\* ------------------------------------------------------- event records
\* item / usage as json.loads delivers them: t is "absent" (key missing),
\* "null", "nonrec" (a string, number or list) or "rec" (a JSON object).
NoItem == [t |-> "absent", type |-> Absent, command |-> Absent,
           exit_code |-> Absent, text |-> Absent]
NoUsage == [t |-> "absent", input_tokens |-> Absent, output_tokens |-> Absent]

\* payload.get("item", {}) / payload.get("usage", {}): {} when the key is missing
EmptyItem == [NoItem EXCEPT !.t = "rec"]
EmptyUsage == [NoUsage EXCEPT !.t = "rec"]
GetItem(payload) == IF payload.item.t = "absent" THEN EmptyItem ELSE payload.item
GetUsage(payload) == IF payload.usage.t = "absent" THEN EmptyUsage ELSE payload.usage

Raised(e) == [exc |-> e, text |-> <<>>, tag |-> "default"]
Shown(text, tag) == [exc |-> "none", text |-> text, tag |-> tag]

\* the tag of a completed agent_message item
AgentTag == "agent"

\* format_event, item.started (43-48)
FormatStarted(item) ==
  IF item.t # "rec" THEN Raised("AttributeError")
  ELSE LET item_type == Get(item.type, Str(<<"unknown">>))
           cmd == Get(item.command, NoneV)
       IN  IF Is(item_type, "command_execution") /\ Truthy(cmd)
           THEN Shown(<<"[command.start] ">> \o Fmt(cmd), "default")
           ELSE Shown(<<"[item.start] ">> \o Fmt(item_type), "default")

\* format_event, a completed reasoning item (56-59)
FormatReasoning(text) ==
  IF text.exc # "none" THEN Raised(text.exc)
  ELSE IF text.s # <<>> THEN Shown(<<"[reasoning] ">> \o text.s, "reasoning")
       ELSE Shown(<<"[reasoning]">>, "reasoning")

\* format_event, a completed agent_message item (61-64)
FormatAgent(text) ==
  IF text.exc # "none" THEN Raised(text.exc)
  ELSE IF text.s # <<>> THEN Shown(<<"[agent] ">> \o text.s, AgentTag)
       ELSE Shown(<<"[agent]">>, AgentTag)

\* format_event, item.completed (50-65)
FormatCompleted(item) ==
  IF item.t # "rec" THEN Raised("AttributeError")
  ELSE LET item_type == Get(item.type, Str(<<"unknown">>)) IN
       CASE Is(item_type, "command_execution") ->
              Shown(<<"[command.done] exit=">> \o Fmt(Get(item.exit_code, NoneV)),
                    "default")
         [] Is(item_type, "reasoning") -> FormatReasoning(TextOf(item))
         [] Is(item_type, "agent_message") -> FormatAgent(TextOf(item))
         [] OTHER -> Shown(<<"[item.done] ">> \o Fmt(item_type), "default")

\* format_event, turn.completed (67-70)
FormatTurn(usage) ==
  IF usage.t # "rec" THEN Raised("AttributeError")
  ELSE Shown(<<"[turn.done] input_tokens=">> \o Fmt(Get(usage.input_tokens, NoneV))
             \o <<" output_tokens=">> \o Fmt(Get(usage.output_tokens, NoneV)),
             "default")

\* format_event(payload): payload.get raises when payload is no dict
format_event(payload) ==
  IF payload.t # "rec" THEN Raised("AttributeError")
  ELSE LET event_type == Get(payload.type, Str(<<"unknown">>)) IN
       CASE Is(event_type, "item.started") -> FormatStarted(GetItem(payload))
         [] Is(event_type, "item.completed") -> FormatCompleted(GetItem(payload))
         [] Is(event_type, "turn.completed") -> FormatTurn(GetUsage(payload))
         [] OTHER -> Shown(<<"[event] ">> \o Fmt(event_type), "default")

\* ------------------------------------------------------------- lines
\* A line read from a handle is either plain text (raw: its tokens, the
\* newline included; no JSON document) or a JSON document surrounded by
\* whitespace (payload: what json.loads makes of the stripped line).
NoPayload == [t |-> "nonrec", type |-> Absent, item |-> NoItem, usage |-> NoUsage]
PlainLine(raw) == [json |-> FALSE, raw |-> raw, payload |-> NoPayload]
JsonLine(payload) == [json |-> TRUE, raw |-> <<>>, payload |-> payload]

Rendered(exc, text, tag, agent) ==
  [exc |-> exc, text |-> text, tag |-> tag, agent_text |-> agent]

\* agent_text = (item.get("text") or "").strip() (96)
AgentTextValue(text) ==
  IF text.exc # "none" THEN [exc |-> text.exc, v |-> NoneV]
  ELSE [exc |-> "none", v |-> Str(text.s)]

\* the item of a completed event, as render_line looks at it (94-96)
AgentTextOfItem(item) ==
  IF item.t # "rec" THEN [exc |-> "AttributeError", v |-> NoneV]
  ELSE IF Is(Get(item.type, NoneV), "agent_message") THEN AgentTextValue(TextOf(item))
       ELSE [exc |-> "none", v |-> NoneV]

\* the summary render_line extracts next to the formatted event (92-96)
AgentTextOf(payload) ==
  IF Is(Get(payload.type, NoneV), "item.completed")
  THEN AgentTextOfItem(GetItem(payload))
  ELSE [exc |-> "none", v |-> NoneV]

\* render_line on text that is no JSON document (83-89)
RenderPlain(text) ==
  IF text = <<>> THEN Rendered("none", <<>>, "default", NoneV)
  ELSE Rendered("none", text, "default", NoneV)

\* render_line on a decoded document: f is format_event's result (91-97)
RenderEvent(f, payload) ==
  IF f.exc # "none" THEN Rendered(f.exc, <<>>, "default", NoneV)
  ELSE LET a == AgentTextOf(payload) IN
       IF a.exc # "none" THEN Rendered(a.exc, <<>>, "default", NoneV)
       ELSE Rendered("none", f.text, f.tag, a.v)

render_line(line) ==
  IF ~line.json THEN RenderPlain(Strip(line.raw))
  ELSE RenderEvent(format_event(line.payload), line.payload)

\* ------------------------------------------------------------ state
VARIABLES
  \* one stream session (stream_process)
  s_pc,                \* "idle", "select", "returned", "raised"
  popen,               \* how subprocess.Popen ends: "ok" or the exception
  pending,             \* per handle: the lines the process still emits
  proc_code,           \* the exit status proc.wait() delivered
  registered,          \* the handles registered with the selector
  sink,                \* per handle: what was written to sys.stdout / sys.stderr
  last_agent_message,  \* the accumulator of stream_process
  consumed,            \* history: the lines read, in arrival order, with their handle
  written,             \* history, per handle: the lines whose output was written
  s_result,            \* what stream_process returned or raised
  \* render_line alone
  r_line,              \* the line handed to render_line
  r_out,               \* what render_line returned or raised for it
  \* run_scheduler
  pc,                  \* position in run_scheduler, "returned" or "raised"
  task_ids,            \* the task list, in the supplied order
  max_rounds,          \* --max-rounds
  cur,                 \* index in task_ids of the task of the for loop (0: none yet)
  rounds,              \* the round counter of the current task
  reviewer_feedback,   \* feedback for the next executor prompt
  exit_code,           \* exit code of the last invocation that returned a tuple
  executor_summary,
  reviewer_summary,
  status,              \* the status value last read
  result,              \* the value run_scheduler returned
  exc,                 \* the exception that left run_scheduler, or "none"
  store,               \* external: the registry entry of every task
  registry_ok,         \* external: the registry file holds a mapping
  prompt,              \* the prompt of the last invocation
  execCount,           \* history, per task index: executor invocations
  revCount,            \* history, per task index: reviewer invocations
  readCount,           \* history, per task index: status reads
  noteCount,           \* history, per task index: notification attempts
  last_note,           \* history: the payload of the last notification attempt
  changes,             \* history, per task index: request_changes statuses read
  exec_bad,            \* history: tasks whose status after an executor was not ready_for_review
  rev_bad,             \* history: tasks whose status after a reviewer was neither done nor request_changes
  rounds_at_read,      \* history: the round counter when the reviewer status was read
  binary_missing,      \* history: an invocation found no binary to start
  done_read,           \* history: tasks whose status after a reviewer was read as done
  live,                \* agent processes started and not yet waited on
  okCount,             \* history, per task index: invocations that returned exit code 0
  \* main
  m_pc,                \* position in main: "main", "prompt", "scheduler", "returned", "raised"
  args_all,            \* --all
  args_tasks,          \* --tasks: not given (None), or the list of ids given
  registry_keys,       \* external: the keys of the registry file, in file order
  m_result,            \* the value main returned
  promptCount          \* history: invocations made in prompt mode

svars == <<s_pc, popen, pending, proc_code, registered, sink,
           last_agent_message, consumed, written, s_result>>

Handles == {"stdout", "stderr"}

\* ---------------------------------------------------- stream_process
ANSI_GREEN == "\\033[32m"
ANSI_BLUE == "\\033[34m"
ANSI_RESET == "\\033[0m"

colorize(text, tag) ==
  CASE tag = "agent" -> <<ANSI_GREEN>> \o text \o <<ANSI_RESET>>
    [] tag = "reasoning" -> <<ANSI_BLUE>> \o text \o <<ANSI_RESET>>
    [] OTHER -> text

\* the line written for a rendered event (no prefix: the session's own sink)
OutputLine(formatted, tag) == <<"[timestamp] ">> \o colorize(formatted, tag) \o <<"\n">>

\* faulty variant of KeepsAgentText: an empty agent message replaces the accumulator
KeepsAgentText_Always(agent_text) == agent_text.t = "str"

\* whether a rendered line replaces the accumulator
KeepsAgentText(agent_text) == Truthy(agent_text)

\* the body of the select loop for one rendered line (127-141):
\* exc: what render_line raised; write: whether a line goes to the sink;
\* last: the accumulator afterwards
ProcessRendered(last, r) ==
  IF r.exc # "none"
  THEN [exc |-> r.exc, write |-> FALSE, output |-> <<>>, last |-> last]
  ELSE IF r.text = <<>>
       THEN [exc |-> "none", write |-> FALSE, output |-> <<>>, last |-> last]
       ELSE [exc |-> "none", write |-> TRUE, output |-> OutputLine(r.text, r.tag),
             last |-> IF KeepsAgentText(r.agent_text) THEN r.agent_text ELSE last]

ProcessLine(last, line) == ProcessRendered(last, render_line(line))

\* results of stream_process: a (code, summary) tuple, a bare int, or an exception
TupleResult(code, summary) ==
  [kind |-> "tuple", code |-> code, summary |-> summary, exc |-> "none"]
IntResult(code) == [kind |-> "int", code |-> code, summary |-> NoneV, exc |-> "none"]
ExcResult(e) == [kind |-> "exc", code |-> 0, summary |-> NoneV, exc |-> e]
NoResult == [kind |-> "none", code |-> 0, summary |-> NoneV, exc |-> "none"]

\* what stream_process returns when Popen raises FileNotFoundError
BinaryMissingResult == IntResult(127)

\* subprocess.Popen(...) under try / except FileNotFoundError (lines 102-112)
StartProcess ==
  /\ s_pc = "idle"
  /\ CASE popen = "ok" ->
            /\ s_pc' = "select"
            /\ registered' = Handles
            /\ s_result' = s_result
       [] popen = "FileNotFoundError" ->
            /\ s_pc' = "returned"
            /\ s_result' = BinaryMissingResult
            /\ registered' = registered
       [] OTHER ->
            /\ s_pc' = "raised"
            /\ s_result' = ExcResult(popen)
            /\ registered' = registered
  /\ UNCHANGED <<popen, pending, proc_code, sink, last_agent_message, consumed,
                 written>>

\* the effect on the session of one line read from handle h
Deliver(h, line, p) ==
  IF p.exc # "none"
  THEN /\ s_pc' = "raised"
       /\ s_result' = ExcResult(p.exc)
       /\ UNCHANGED <<sink, written, last_agent_message>>
  ELSE /\ last_agent_message' = p.last
       /\ sink' = IF p.write THEN [sink EXCEPT ![h] = Append(@, p.output)] ELSE sink
       /\ written' = IF p.write THEN [written EXCEPT ![h] = Append(@, line)] ELSE written
       /\ UNCHANGED <<s_pc, s_result>>

\* one readable handle delivers a line (121-141)
ReadLine(h) ==
  /\ s_pc = "select"
  /\ h \in registered
  /\ pending[h] # <<>>
  /\ pending' = [pending EXCEPT ![h] = Tail(@)]
  /\ consumed' = Append(consumed, [h |-> h, line |-> Head(pending[h])])
  /\ Deliver(h, Head(pending[h]), ProcessLine(last_agent_message, Head(pending[h])))
  /\ UNCHANGED <<popen, proc_code, registered>>

\* readline() returns "": end of stream, the handle is unregistered (123-125)
ReadEOF(h) ==
  /\ s_pc = "select"
  /\ h \in registered
  /\ pending[h] = <<>>
  /\ registered' = registered \ {h}
  /\ UNCHANGED <<s_pc, popen, pending, proc_code, sink, last_agent_message,
                 consumed, written, s_result>>

\* the exit statuses a session is run with
StreamCodes == {0, 2}

\* selector.get_map() is empty: return proc.wait(), last_agent_message (120, 143)
WaitProcess ==
  /\ s_pc = "select"
  /\ registered = {}
  /\ s_pc' = "returned"
  /\ \E code \in StreamCodes :
       /\ proc_code' = code
       /\ s_result' = TupleResult(code, last_agent_message)
  /\ UNCHANGED <<popen, pending, registered, sink, last_agent_message, consumed,
                 written>>

\* stream_process as a function of what the process does: the lines in
\* arrival order, folded through the loop body
RECURSIVE Drain(_, _)
DrainNext(rest, p) ==
  IF p.exc # "none" THEN [exc |-> p.exc, last |-> p.last] ELSE Drain(rest, p.last)

Drain(arrivals, last) ==
  IF arrivals = <<>> THEN [exc |-> "none", last |-> last]
  ELSE DrainNext(Tail(arrivals), ProcessLine(last, Head(arrivals).line))

Drained(code, d) ==
  IF d.exc # "none" THEN ExcResult(d.exc) ELSE TupleResult(code, d.last)

stream_process(b) ==
  CASE b.popen = "FileNotFoundError" -> BinaryMissingResult
    [] b.popen # "ok" -> ExcResult(b.popen)
    [] OTHER -> Drained(b.code, Drain(b.arrivals, NoneV))

rvars == <<r_line, r_out>>

schedvars == <<pc, task_ids, max_rounds, cur, rounds, reviewer_feedback, exit_code,
               executor_summary, reviewer_summary, status, result, exc, store,
               registry_ok, prompt, execCount, revCount, readCount, noteCount,
               last_note, changes, exec_bad, rev_bad, rounds_at_read, binary_missing>>

histvars == <<done_read, live, okCount>>

mvars == <<m_pc, args_all, args_tasks, registry_keys, m_result, promptCount>>

vars == <<svars, rvars, schedvars, histvars, mvars>>

\* ------------------------------------------------------ the registry
AllIds == <<"T-001", "T-002", "T-003", "T-004">>

\* a registry entry: missing, or a mapping with a status field
AbsentEntry == [t |-> "absent", status |-> Absent]
Entry(v) == [t |-> "dict", status |-> v]

\* faulty variant of task_status: a status once read is kept for the later
\* check points
task_status_Cached(ok, data, task_id) ==
  IF status # NoneV THEN [exc |-> "none", v |-> status]
  ELSE IF ~ok THEN [exc |-> "ValueError", v |-> NoneV]
  ELSE IF data[task_id].t = "dict" /\ data[task_id].status.t = "str"
       THEN [exc |-> "none", v |-> data[task_id].status]
       ELSE [exc |-> "none", v |-> NoneV]

\* task_status(path, task_id): None unless the entry is a mapping whose
\* status is a string; load_tasks_state raises when the file holds no mapping
task_status(ok, data, task_id) ==
  IF ~ok THEN [exc |-> "ValueError", v |-> NoneV]
  ELSE LET entry == data[task_id] IN
       IF entry.t # "dict" THEN [exc |-> "none", v |-> NoneV]
       ELSE IF entry.status.t = "str" THEN [exc |-> "none", v |-> entry.status]
            ELSE [exc |-> "none", v |-> NoneV]

\* ---------------------------------------------------------- prompts
Prompt(role, task_id, body) == [role |-> role, task_id |-> task_id, body |-> body]
NoPrompt == Prompt("none", "", <<>>)

build_executor_prompt(task_id, feedback) ==
  IF Truthy(feedback)
  THEN Prompt("executor", task_id, <<"Reviewer feedback:">> \o feedback.s)
  ELSE Prompt("executor", task_id, <<>>)

build_reviewer_prompt(task_id, summary) ==
  Prompt("reviewer", task_id,
         IF Truthy(summary) THEN summary.s ELSE <<"No executor summary captured.">>)

\* --------------------------------------------------------- notifier
\* subprocess.run([IMESSAGE_SCRIPT, payload], check=False, ...) under
\* try / except FileNotFoundError: only PermissionError leaves send_imessage
NotifierOutcomes == {"ok", "nonzero", "FileNotFoundError", "PermissionError"}

\* faulty variant of NotePayload: a status that is absent is sent as it is
NotePayload_Raw(role, task_id, st, response) ==
  [role |-> role, task_id |-> task_id,
   status |-> st.s,
   response |-> IF Truthy(response) THEN response.s
                ELSE <<"No agent response captured.">>]

\* payload = f"[{role}] [{task_id}] ({message_status}): {response_text}" (280-282)
NotePayload(role, task_id, st, response) ==
  [role |-> role, task_id |-> task_id,
   status |-> IF Truthy(st) THEN st.s ELSE <<"unknown">>,
   response |-> IF Truthy(response) THEN response.s
                ELSE <<"No agent response captured.">>]
NoNote == [role |-> "none", task_id |-> "", status |-> <<>>, response |-> <<>>]

send_imessage_raises(outcome) == outcome \notin {"ok", "nonzero", "FileNotFoundError"}

\* ------------------------------------------------- sample event lines
Event(ty, item, usage) == [t |-> "rec", type |-> ty, item |-> item, usage |-> usage]
Item(ty, cmd, code, tx) ==
  [t |-> "rec", type |-> ty, command |-> cmd, exit_code |-> code, text |-> tx]
Completed(item) == JsonLine(Event(Str(<<"item.completed">>), item, NoUsage))
AgentMessage(text) == Completed(Item(Str(<<"agent_message">>), Absent, Absent, text))
Reasoning(text) == Completed(Item(Str(<<"reasoning">>), Absent, Absent, text))
NonRecordLine == JsonLine(NoPayload)

\* ------------------------------------------------------ run_scheduler
ExitCodes == {0, 2, 127}
PopenOutcomes == {"ok", "FileNotFoundError", "PermissionError"}
RoundsValues == (-1) .. MaxRoundsCap

READY_FOR_REVIEW == Str(<<"ready_for_review">>)
DONE == Str(<<"done">>)
REQUEST_CHANGES == Str(<<"request_changes">>)

\* what the agent process may leave in the registry for a task
EntryValues ==
  {AbsentEntry, Entry(Num(<<"7">>)), Entry(Str(<<"ready">>)), Entry(READY_FOR_REVIEW),
   Entry(REQUEST_CHANGES), Entry(DONE)}

\* what one agent process does: how it starts, the lines it emits in arrival
\* order, its exit status
Arrival(h, line) == [h |-> h, line |-> line]
SchedArrivals ==
  { <<>>,
    <<Arrival("stdout", AgentMessage(Str(<<" ", "summary A", "\n">>)))>>,
    <<Arrival("stdout", AgentMessage(Str(<<"summary A">>))),
      Arrival("stderr", AgentMessage(Str(<<"summary B">>)))>>,
    <<Arrival("stdout", AgentMessage(Str(<<"summary B">>))),
      Arrival("stdout", AgentMessage(Str(<<" ">>)))>>,
    <<Arrival("stdout", NonRecordLine)>> }
Behaviours ==
  [popen : {"ok"}, arrivals : SchedArrivals, code : ExitCodes]
    \cup [popen : PopenOutcomes \ {"ok"}, arrivals : {<<>>}, code : {0}]

TaskOf(i) == task_ids[i]
Bump(f, i) == [f EXCEPT ![i] = @ + 1]

Goto(label) ==
  /\ pc' = label
  /\ UNCHANGED <<result, exc>>

\* faulty variant of Return: an abort of one task goes on with the next task
Return_SkipTask(code) ==
  IF code # 0 THEN Goto("for")
  ELSE /\ pc' = "returned"
       /\ result' = code
       /\ exc' = exc

\* return code
Return(code) ==
  /\ pc' = "returned"
  /\ result' = code
  /\ exc' = exc

\* an exception leaves run_scheduler
Raise(e) ==
  /\ pc' = "raised"
  /\ exc' = e
  /\ result' = result

\* the exit status of the interpreter: raise SystemExit(main()), and 1 when
\* an exception leaves main
ExitStatus == IF pc = "raised" THEN 1 ELSE result
RunOver == pc \in {"returned", "raised"}

\* faulty variant of ForTask: the round counter and the feedback are set up
\* once for the whole run and go on from one task to the next
ForTask_KeepRounds ==
  /\ pc = "for"
  /\ IF cur < Len(task_ids)
     THEN /\ cur' = cur + 1
          /\ Goto("while")
     ELSE /\ Return(0)
          /\ cur' = cur
  /\ UNCHANGED <<rounds, reviewer_feedback>>
  /\ UNCHANGED <<task_ids, max_rounds, exit_code, executor_summary, reviewer_summary,
                 status, store, registry_ok, prompt, execCount, revCount, readCount,
                 noteCount, last_note, changes, exec_bad, rev_bad, rounds_at_read,
                 binary_missing>>
  /\ UNCHANGED histvars

\* for task_id in task_ids: rounds = 0, reviewer_feedback = None (219-222);
\* the list exhausted: return 0 (276)
ForTask ==
  /\ pc = "for"
  /\ IF cur < Len(task_ids)
     THEN /\ cur' = cur + 1
          /\ rounds' = 0
          /\ reviewer_feedback' = NoneV
          /\ Goto("while")
     ELSE /\ Return(0)
          /\ UNCHANGED <<cur, rounds, reviewer_feedback>>
  /\ UNCHANGED <<task_ids, max_rounds, exit_code, executor_summary, reviewer_summary,
                 status, store, registry_ok, prompt, execCount, revCount, readCount,
                 noteCount, last_note, changes, exec_bad, rev_bad, rounds_at_read,
                 binary_missing>>
  /\ UNCHANGED histvars

\* faulty variant of RoundsLeft: the round is entered before the budget is
\* looked at
RoundsLeft_Always == TRUE

\* the loop condition of one round
RoundsLeft == rounds < max_rounds

\* while rounds < max_rounds (223); the loop ending is the next task
WhileRounds ==
  /\ pc = "while"
  /\ IF RoundsLeft THEN Goto("executor") ELSE Goto("for")
  /\ UNCHANGED <<task_ids, max_rounds, cur, rounds, reviewer_feedback, exit_code,
                 executor_summary, reviewer_summary, status, store, registry_ok,
                 prompt, execCount, revCount, readCount, noteCount, last_note,
                 changes, exec_bad, rev_bad, rounds_at_read, binary_missing>>
  /\ UNCHANGED histvars

\* the registry after an agent process ran for the task: the process may
\* rewrite the task's entry, or leave a file that holds no mapping
AgentWrites(b) ==
  IF b.popen = "ok"
  THEN \/ /\ \E e \in EntryValues : store' = [store EXCEPT ![TaskOf(cur)] = e]
          /\ registry_ok' = TRUE
       \/ /\ registry_ok' = FALSE
          /\ store' = store
  ELSE UNCHANGED <<store, registry_ok>>

\* faulty variant of AfterInvocation: every failure is reported as 1
AfterInvocation_Flat(code, next) == IF code # 0 THEN Return(1) ELSE Goto(next)

\* where run_scheduler goes after an invocation that returned (code, summary)
AfterInvocation(code, next) == IF code # 0 THEN Return(code) ELSE Goto(next)

\* exit_code, summary = run_codex(...): a bare int cannot be unpacked
Unpack(r, next) ==
  CASE r.kind = "tuple" -> AfterInvocation(r.code, next)
    [] r.kind = "int" -> Raise("TypeError")
    [] OTHER -> Raise(r.exc)

\* Popen started a process (103-109)
Started(b) == IF b.popen = "ok" THEN 1 ELSE 0

\* faulty variant of Waited: stream_process returns without waiting
Waited_Never(r) == 0

\* stream_process waited on its process: proc.wait() (143) is reached on the
\* returning path only
Waited(r) == IF r.kind = "tuple" THEN 1 ELSE 0

\* the processes alive after one invocation, and the clean invocations
Accounts(b, r) ==
  /\ live' = live + Started(b) - Waited(r)
  /\ okCount' = IF r.kind = "tuple" /\ r.code = 0 THEN Bump(okCount, cur) ELSE okCount

\* exit_code, executor_summary = run_codex(...) (225-232)
ExecutorReturns(r) ==
  /\ Unpack(r, "exec_status")
  /\ IF r.kind = "tuple"
     THEN exit_code' = r.code /\ executor_summary' = r.summary
     ELSE UNCHANGED <<exit_code, executor_summary>>

ExecutorRuns(b, r) == ExecutorReturns(r) /\ Accounts(b, r)

\* executor invocation (224-232)
RunExecutor ==
  /\ pc = "executor"
  /\ prompt' = build_executor_prompt(TaskOf(cur), reviewer_feedback)
  /\ execCount' = Bump(execCount, cur)
  /\ \E b \in Behaviours :
       /\ AgentWrites(b)
       /\ binary_missing' = (binary_missing \/ b.popen = "FileNotFoundError")
       /\ ExecutorRuns(b, stream_process(b))
  /\ UNCHANGED <<task_ids, max_rounds, cur, rounds, reviewer_feedback,
                 reviewer_summary, status, revCount, readCount, noteCount, last_note,
                 changes, exec_bad, rev_bad, rounds_at_read>>
  /\ UNCHANGED done_read

\* status = task_status(tasks_state_path, task_id) after the executor (234)
ReadExecutorStatus ==
  /\ pc = "exec_status"
  /\ LET r == task_status(registry_ok, store, TaskOf(cur)) IN
     IF r.exc # "none"
     THEN /\ Raise(r.exc)
          /\ UNCHANGED <<status, readCount, exec_bad>>
     ELSE /\ status' = r.v
          /\ readCount' = Bump(readCount, cur)
          /\ exec_bad' = IF r.v # READY_FOR_REVIEW THEN exec_bad \cup {cur} ELSE exec_bad
          /\ Goto("exec_notify")
  /\ UNCHANGED <<task_ids, max_rounds, cur, rounds, reviewer_feedback, exit_code,
                 executor_summary, reviewer_summary, store, registry_ok, prompt,
                 execCount, revCount, noteCount, last_note, changes, rev_bad,
                 rounds_at_read, binary_missing>>
  /\ UNCHANGED histvars

\* faulty variant of ExecutorHandsOff: any status a task can be read with passes
ExecutorHandsOff_AnyKnown == status # NoneV

\* the decision after the executor's status (236-241)
ExecutorHandsOff == status = READY_FOR_REVIEW

\* send_imessage("executor", ...) and the status check (235-241)
CheckExecutor ==
  /\ pc = "exec_notify"
  /\ noteCount' = Bump(noteCount, cur)
  /\ last_note' = NotePayload("executor", TaskOf(cur), status, executor_summary)
  /\ \E n \in NotifierOutcomes :
       IF send_imessage_raises(n) THEN Raise(n)
       ELSE IF ExecutorHandsOff THEN Goto("reviewer") ELSE Return(1)
  /\ UNCHANGED <<task_ids, max_rounds, cur, rounds, reviewer_feedback, exit_code,
                 executor_summary, reviewer_summary, status, store, registry_ok,
                 prompt, execCount, revCount, readCount, changes, exec_bad, rev_bad,
                 rounds_at_read, binary_missing>>
  /\ UNCHANGED histvars

\* exit_code, reviewer_summary = run_codex(...) (244-251)
ReviewerReturns(r) ==
  /\ Unpack(r, "rev_status")
  /\ IF r.kind = "tuple"
     THEN exit_code' = r.code /\ reviewer_summary' = r.summary
     ELSE UNCHANGED <<exit_code, reviewer_summary>>

ReviewerRuns(b, r) == ReviewerReturns(r) /\ Accounts(b, r)

\* reviewer invocation (243-251)
RunReviewer ==
  /\ pc = "reviewer"
  /\ prompt' = build_reviewer_prompt(TaskOf(cur), executor_summary)
  /\ revCount' = Bump(revCount, cur)
  /\ \E b \in Behaviours :
       /\ AgentWrites(b)
       /\ binary_missing' = (binary_missing \/ b.popen = "FileNotFoundError")
       /\ ReviewerRuns(b, stream_process(b))
  /\ UNCHANGED <<task_ids, max_rounds, cur, rounds, reviewer_feedback,
                 executor_summary, status, execCount, readCount, noteCount, last_note,
                 changes, exec_bad, rev_bad, rounds_at_read>>
  /\ UNCHANGED done_read

\* status = task_status(tasks_state_path, task_id) after the reviewer (253)
ReadReviewerStatus ==
  /\ pc = "rev_status"
  /\ LET r == task_status(registry_ok, store, TaskOf(cur)) IN
     IF r.exc # "none"
     THEN /\ Raise(r.exc)
          /\ UNCHANGED <<status, readCount, changes, rev_bad, rounds_at_read,
                         done_read>>
     ELSE /\ status' = r.v
          /\ readCount' = Bump(readCount, cur)
          /\ changes' = IF r.v = REQUEST_CHANGES THEN Bump(changes, cur) ELSE changes
          /\ rev_bad' = IF r.v \notin {DONE, REQUEST_CHANGES}
                        THEN rev_bad \cup {cur} ELSE rev_bad
          /\ rounds_at_read' = rounds
          /\ done_read' = IF r.v = DONE THEN done_read \cup {cur} ELSE done_read
          /\ Goto("rev_notify")
  /\ UNCHANGED <<task_ids, max_rounds, cur, rounds, reviewer_feedback, exit_code,
                 executor_summary, reviewer_summary, store, registry_ok, prompt,
                 execCount, revCount, noteCount, last_note, exec_bad, binary_missing>>
  /\ UNCHANGED <<live, okCount>>

\* faulty variant of BudgetSpent: the budget is one round too long
BudgetSpent_Late(n) == n > max_rounds

\* the budget test after a request_changes round (261)
BudgetSpent(n) == n >= max_rounds

\* faulty variant of NextFeedback: the feedback of the first request_changes
\* round of a task is kept for its later rounds
NextFeedback_First ==
  IF Truthy(reviewer_feedback) THEN reviewer_feedback
  ELSE IF Truthy(reviewer_summary) THEN reviewer_summary
  ELSE Str(<<"No reviewer summary captured.">>)

\* reviewer_summary or "No reviewer summary captured." (267)
NextFeedback ==
  IF Truthy(reviewer_summary) THEN reviewer_summary
  ELSE Str(<<"No reviewer summary captured.">>)

\* faulty variant of ReviewerDecision: an unexpected status is retried
ReviewerDecision_Retry ==
  IF status = DONE
  THEN /\ Goto("for")
       /\ UNCHANGED <<rounds, reviewer_feedback>>
  ELSE /\ rounds' = rounds + 1
       /\ IF rounds + 1 >= max_rounds
          THEN Return(1) /\ UNCHANGED reviewer_feedback
          ELSE /\ reviewer_feedback' =
                    IF Truthy(reviewer_summary) THEN reviewer_summary
                    ELSE Str(<<"No reviewer summary captured.">>)
               /\ Goto("while")

\* the decision after the reviewer's status (255-275)
ReviewerDecision ==
  CASE status = DONE ->
         /\ Goto("for")
         /\ UNCHANGED <<rounds, reviewer_feedback>>
    [] status = REQUEST_CHANGES ->
         /\ rounds' = rounds + 1
         /\ IF BudgetSpent(rounds + 1)
            THEN Return(1) /\ UNCHANGED reviewer_feedback
            ELSE /\ reviewer_feedback' = NextFeedback
                 /\ Goto("while")
    [] OTHER ->
         /\ Return(1)
         /\ UNCHANGED <<rounds, reviewer_feedback>>

\* send_imessage("reviewer", ...) and the status check (254-275)
CheckReviewer ==
  /\ pc = "rev_notify"
  /\ noteCount' = Bump(noteCount, cur)
  /\ last_note' = NotePayload("reviewer", TaskOf(cur), status, reviewer_summary)
  /\ \E n \in NotifierOutcomes :
       IF send_imessage_raises(n)
       THEN Raise(n) /\ UNCHANGED <<rounds, reviewer_feedback>>
       ELSE ReviewerDecision
  /\ UNCHANGED <<task_ids, max_rounds, cur, exit_code, executor_summary,
                 reviewer_summary, status, store, registry_ok, prompt, execCount,
                 revCount, readCount, changes, exec_bad, rev_bad, rounds_at_read,
                 binary_missing>>
  /\ UNCHANGED histvars

\* --------------------------------------------------------------- main
\* args.tasks: None when --tasks is not given, else the list that follows it
NoTasksArg == [given |-> FALSE, ids |-> <<>>]
TasksArg(ids) == [given |-> TRUE, ids |-> ids]

\* the truth value of args.tasks: None and the empty list are false
TasksGiven(a) == a.given /\ a.ids # <<>>

SCHEMA_VERSION == "schema_version"

\* task_ids_from_state(path): the keys in file order, the reserved one skipped
task_ids_from_state(keys) == SelectSeq(keys, LAMBDA key : key # SCHEMA_VERSION)

\* faulty variant of StillToRun: a task whose status cannot be read is dropped
StillToRun_Known(data, task_id) ==
  task_status(TRUE, data, task_id).v \notin {DONE, NoneV}

\* task_status(args.tasks_state, task_id) != "done" (336)
StillToRun(data, task_id) == task_status(TRUE, data, task_id).v # DONE

\* the list comprehension of --all (332-337)
AllPending(keys, data) ==
  SelectSeq(task_ids_from_state(keys), LAMBDA task_id : StillToRun(data, task_id))

\* if args.all and args.tasks (326)
Conflict == args_all /\ TasksGiven(args_tasks)

\* return code, from main
MainReturns(code) ==
  /\ m_pc' = "returned"
  /\ m_result' = code
  /\ exc' = exc

\* an exception leaves main
MainRaises(e) ==
  /\ m_pc' = "raised"
  /\ m_result' = m_result
  /\ exc' = e

\* return run_scheduler(task_ids, args.tasks_state, args.max_rounds), entered
EnterScheduler(ids) ==
  /\ m_pc' = "scheduler"
  /\ m_result' = m_result
  /\ exc' = exc
  /\ pc' = "for"
  /\ task_ids' = ids

\* the task list of the scheduler modes, and what main does with it (330-343)
SchedulerMode(ids) ==
  IF ids = <<>>
  THEN MainReturns(0) /\ UNCHANGED <<pc, task_ids>>
  ELSE EnterScheduler(ids)

\* main from the parsed arguments to the mode it runs (326-345)
MainDispatch ==
  /\ m_pc = "main"
  /\ IF Conflict
     THEN MainReturns(2) /\ UNCHANGED <<pc, task_ids>>
     ELSE IF args_all
     THEN IF registry_ok
          THEN SchedulerMode(AllPending(registry_keys, store))
          ELSE MainRaises("ValueError") /\ UNCHANGED <<pc, task_ids>>
     ELSE IF TasksGiven(args_tasks)
     THEN SchedulerMode(args_tasks.ids)
     ELSE /\ m_pc' = "prompt"
          /\ UNCHANGED <<m_result, exc, pc, task_ids>>
  /\ UNCHANGED <<max_rounds, cur, rounds, reviewer_feedback, exit_code,
                 executor_summary, reviewer_summary, status, result, store,
                 registry_ok, prompt, execCount, revCount, readCount, noteCount,
                 last_note, changes, exec_bad, rev_bad, rounds_at_read,
                 binary_missing>>
  /\ UNCHANGED <<histvars, args_all, args_tasks, registry_keys, promptCount>>

\* exit_code, _ = run_codex(args.prompt); return exit_code (345-346)
PromptReturns(b, r) ==
  /\ live' = live + Started(b) - Waited(r)
  /\ CASE r.kind = "tuple" -> MainReturns(r.code)
       [] r.kind = "int" -> MainRaises("TypeError")
       [] OTHER -> MainRaises(r.exc)

\* prompt mode (345-346)
MainPrompt ==
  /\ m_pc = "prompt"
  /\ promptCount' = promptCount + 1
  /\ \E b \in Behaviours :
       /\ binary_missing' = (binary_missing \/ b.popen = "FileNotFoundError")
       /\ PromptReturns(b, stream_process(b))
  /\ UNCHANGED <<pc, task_ids, max_rounds, cur, rounds, reviewer_feedback, exit_code,
                 executor_summary, reviewer_summary, status, result, store,
                 registry_ok, prompt, execCount, revCount, readCount, noteCount,
                 last_note, changes, exec_bad, rev_bad, rounds_at_read>>
  /\ UNCHANGED <<done_read, okCount, args_all, args_tasks, registry_keys>>

\* run_scheduler is over: main returns what it returned (343)
MainReturn ==
  /\ m_pc = "scheduler"
  /\ RunOver
  /\ m_pc' = pc
  /\ m_result' = IF pc = "returned" THEN result ELSE m_result
  /\ UNCHANGED <<schedvars, histvars, args_all, args_tasks, registry_keys,
                 promptCount>>

\* the exit status of the interpreter after main (349-350)
MainExitStatus == IF m_pc = "raised" THEN 1 ELSE m_result

\* ------------------------------------------------------ specifications
Ids(n) == {AllIds[i] : i \in 1 .. n}

StreamIdle ==
  /\ s_pc = "idle"
  /\ registered = {}
  /\ sink = [h \in Handles |-> <<>>]
  /\ last_agent_message = NoneV
  /\ consumed = <<>>
  /\ written = [h \in Handles |-> <<>>]
  /\ s_result = NoResult

NoStream ==
  /\ StreamIdle
  /\ popen = "ok"
  /\ pending = [h \in Handles |-> <<>>]
  /\ proc_code = 0

NoRender ==
  /\ r_line = PlainLine(<<"\n">>)
  /\ r_out = Rendered("idle", <<>>, "default", NoneV)

\* run_scheduler(task_ids, tasks_state_path, max_rounds) is entered
SchedInit ==
  /\ pc = "for"
  /\ \E n \in 1 .. MaxTasks : task_ids = [i \in 1 .. n |-> AllIds[i]]
  /\ max_rounds \in RoundsValues
  /\ cur = 0
  /\ rounds = 0
  /\ reviewer_feedback = NoneV
  /\ exit_code = 0
  /\ executor_summary = NoneV
  /\ reviewer_summary = NoneV
  /\ status = NoneV
  /\ result = 0
  /\ exc = "none"
  /\ store = [id \in Ids(MaxTasks) |-> Entry(Str(<<"ready">>))]
  /\ registry_ok = TRUE
  /\ prompt = NoPrompt
  /\ execCount = [i \in 1 .. MaxTasks |-> 0]
  /\ revCount = [i \in 1 .. MaxTasks |-> 0]
  /\ readCount = [i \in 1 .. MaxTasks |-> 0]
  /\ noteCount = [i \in 1 .. MaxTasks |-> 0]
  /\ last_note = NoNote
  /\ changes = [i \in 1 .. MaxTasks |-> 0]
  /\ exec_bad = {}
  /\ rev_bad = {}
  /\ rounds_at_read = 0
  /\ binary_missing = FALSE
  /\ done_read = {}
  /\ live = 0
  /\ okCount = [i \in 1 .. MaxTasks |-> 0]

NoSched ==
  /\ pc = "idle"
  /\ task_ids = <<>>
  /\ max_rounds = 0
  /\ cur = 0
  /\ rounds = 0
  /\ reviewer_feedback = NoneV
  /\ exit_code = 0
  /\ executor_summary = NoneV
  /\ reviewer_summary = NoneV
  /\ status = NoneV
  /\ result = 0
  /\ exc = "none"
  /\ store = [id \in Ids(MaxTasks) |-> Entry(Str(<<"ready">>))]
  /\ registry_ok = TRUE
  /\ prompt = NoPrompt
  /\ execCount = [i \in 1 .. MaxTasks |-> 0]
  /\ revCount = [i \in 1 .. MaxTasks |-> 0]
  /\ readCount = [i \in 1 .. MaxTasks |-> 0]
  /\ noteCount = [i \in 1 .. MaxTasks |-> 0]
  /\ last_note = NoNote
  /\ changes = [i \in 1 .. MaxTasks |-> 0]
  /\ exec_bad = {}
  /\ rev_bad = {}
  /\ rounds_at_read = 0
  /\ binary_missing = FALSE
  /\ done_read = {}
  /\ live = 0
  /\ okCount = [i \in 1 .. MaxTasks |-> 0]

\* main is not part of the run
NoMain ==
  /\ m_pc = "idle"
  /\ args_all = FALSE
  /\ args_tasks = NoTasksArg
  /\ registry_keys = [i \in 1 .. MaxTasks |-> AllIds[i]]
  /\ m_result = 0
  /\ promptCount = 0

Init == SchedInit /\ NoStream /\ NoRender /\ NoMain

Next ==
  \/ (ForTask /\ UNCHANGED <<svars, rvars, mvars>>)
  \/ (WhileRounds /\ UNCHANGED <<svars, rvars, mvars>>)
  \/ (RunExecutor /\ UNCHANGED <<svars, rvars, mvars>>)
  \/ (ReadExecutorStatus /\ UNCHANGED <<svars, rvars, mvars>>)
  \/ (CheckExecutor /\ UNCHANGED <<svars, rvars, mvars>>)
  \/ (RunReviewer /\ UNCHANGED <<svars, rvars, mvars>>)
  \/ (ReadReviewerStatus /\ UNCHANGED <<svars, rvars, mvars>>)
  \/ (CheckReviewer /\ UNCHANGED <<svars, rvars, mvars>>)

Spec == Init /\ [][Next]_vars

\* run_scheduler goes on while it can: one thread, every external invocation
\* and every notification attempt returns
LiveSpec == Init /\ [][Next]_vars /\ WF_vars(Next)

\* ----------------------------------------------------- a run of main
\* the registry files main is run on: the keys in file order, the entries,
\* and whether the file holds a mapping at all
Registry(keys, first, second, ok) ==
  [keys |-> keys,
   data |-> [id \in Ids(MaxTasks) |->
              IF id = AllIds[1] THEN first
              ELSE IF id = AllIds[2] THEN second ELSE AbsentEntry],
   ok |-> ok]
MainRegistries ==
  { Registry(<<SCHEMA_VERSION, AllIds[1], AllIds[2]>>,
             Entry(DONE), Entry(Str(<<"ready">>)), TRUE),
    Registry(<<AllIds[2], SCHEMA_VERSION, AllIds[1]>>,
             AbsentEntry, Entry(Num(<<"7">>)), TRUE),
    Registry(<<AllIds[1], AllIds[2]>>, Entry(DONE), Entry(DONE), TRUE),
    Registry(<<>>, AbsentEntry, AbsentEntry, TRUE),
    Registry(<<AllIds[1], AllIds[2]>>,
             Entry(Str(<<"ready">>)), Entry(Str(<<"ready">>)), FALSE) }

\* what may follow --tasks on the command line
MainTaskArgs == {NoTasksArg, TasksArg(<<>>), TasksArg(<<AllIds[2], AllIds[1]>>)}

\* --max-rounds of the runs of main
MainRounds == {1}

\* main is entered with the parsed arguments (324)
MainInit ==
  /\ m_pc = "main"
  /\ args_all \in BOOLEAN
  /\ args_tasks \in MainTaskArgs
  /\ \E reg \in MainRegistries :
       /\ registry_keys = reg.keys
       /\ store = reg.data
       /\ registry_ok = reg.ok
  /\ max_rounds \in MainRounds
  /\ m_result = 0
  /\ promptCount = 0
  /\ pc = "idle"
  /\ task_ids = <<>>
  /\ cur = 0
  /\ rounds = 0
  /\ reviewer_feedback = NoneV
  /\ exit_code = 0
  /\ executor_summary = NoneV
  /\ reviewer_summary = NoneV
  /\ status = NoneV
  /\ result = 0
  /\ exc = "none"
  /\ prompt = NoPrompt
  /\ execCount = [i \in 1 .. MaxTasks |-> 0]
  /\ revCount = [i \in 1 .. MaxTasks |-> 0]
  /\ readCount = [i \in 1 .. MaxTasks |-> 0]
  /\ noteCount = [i \in 1 .. MaxTasks |-> 0]
  /\ last_note = NoNote
  /\ changes = [i \in 1 .. MaxTasks |-> 0]
  /\ exec_bad = {}
  /\ rev_bad = {}
  /\ rounds_at_read = 0
  /\ binary_missing = FALSE
  /\ done_read = {}
  /\ live = 0
  /\ okCount = [i \in 1 .. MaxTasks |-> 0]
  /\ NoStream
  /\ NoRender

MainNext ==
  \/ (MainDispatch /\ UNCHANGED <<svars, rvars>>)
  \/ (MainPrompt /\ UNCHANGED <<svars, rvars>>)
  \/ (MainReturn /\ UNCHANGED <<svars, rvars>>)
  \/ (ForTask /\ UNCHANGED <<svars, rvars, mvars>>)
  \/ (WhileRounds /\ UNCHANGED <<svars, rvars, mvars>>)
  \/ (RunExecutor /\ UNCHANGED <<svars, rvars, mvars>>)
  \/ (ReadExecutorStatus /\ UNCHANGED <<svars, rvars, mvars>>)
  \/ (CheckExecutor /\ UNCHANGED <<svars, rvars, mvars>>)
  \/ (RunReviewer /\ UNCHANGED <<svars, rvars, mvars>>)
  \/ (ReadReviewerStatus /\ UNCHANGED <<svars, rvars, mvars>>)
  \/ (CheckReviewer /\ UNCHANGED <<svars, rvars, mvars>>)

MainSpec == MainInit /\ [][MainNext]_vars

\* -------------------------------------------------- one stream session
SeqsUpTo(S, n) == UNION {[1 .. k -> S] : k \in 0 .. n}

\* the lines a session is run on
StreamLines ==
  { PlainLine(<<"\n">>),
    PlainLine(<<" ", "oops", "\n">>),
    AgentMessage(Str(<<" ", "hi", " ">>)),
    AgentMessage(Str(<<" ">>)),
    Reasoning(Str(<<"think">>)),
    NonRecordLine }

StreamInit ==
  /\ StreamIdle
  /\ popen \in PopenOutcomes
  /\ IF popen = "ok"
     THEN /\ \E o \in SeqsUpTo(StreamLines, MaxLines) :
               \E e \in SeqsUpTo(StreamLines, MaxLines - Len(o)) :
                 pending = [h \in Handles |-> IF h = "stdout" THEN o ELSE e]
     ELSE pending = [h \in Handles |-> <<>>]
  /\ proc_code = 0
  /\ NoSched
  /\ NoRender
  /\ NoMain

StreamNext ==
  \/ (StartProcess /\ UNCHANGED <<rvars, schedvars, histvars, mvars>>)
  \/ (\E h \in Handles : ReadLine(h) /\ UNCHANGED <<rvars, schedvars, histvars, mvars>>)
  \/ (\E h \in Handles : ReadEOF(h) /\ UNCHANGED <<rvars, schedvars, histvars, mvars>>)
  \/ (WaitProcess /\ UNCHANGED <<rvars, schedvars, histvars, mvars>>)

StreamSpec == StreamInit /\ [][StreamNext]_vars

\* the lines of the sessions whose termination is looked at
LiveLines == {AgentMessage(Str(<<" ", "hi", " ">>)), NonRecordLine}

StreamLiveInit ==
  /\ StreamIdle
  /\ popen \in PopenOutcomes
  /\ IF popen = "ok"
     THEN /\ \E o \in SeqsUpTo(LiveLines, MaxLines) :
               \E e \in SeqsUpTo(LiveLines, MaxLines - Len(o)) :
                 pending = [h \in Handles |-> IF h = "stdout" THEN o ELSE e]
     ELSE pending = [h \in Handles |-> <<>>]
  /\ proc_code = 0
  /\ NoSched
  /\ NoRender
  /\ NoMain

\* the session goes on while it can: the select loop of one thread, a
\* process that closes its channels and exits
StreamLiveSpec == StreamLiveInit /\ [][StreamNext]_vars /\ WF_vars(StreamNext)

\* ------------------------------------------------------ render_line alone
TextValues ==
  {Absent, NoneV, Str(<<>>), Str(<<" ">>), Str(<<"h", "i">>),
   Str(<<" ", "h", " ", "i", "\n">>), Num(<<"0">>), Num(<<"7">>)}
ItemTypes ==
  {Absent, NoneV, Str(<<"command_execution">>), Str(<<"reasoning">>),
   Str(<<"agent_message">>), Str(<<"file_change">>)}
CommandValues == {Absent, Str(<<>>), Str(<<"ls">>)}
ExitValues == {Absent, Num(<<"0">>)}
OddItems == {NoItem, [NoItem EXCEPT !.t = "null"], [NoItem EXCEPT !.t = "nonrec"]}
Items ==
  OddItems \cup [t : {"rec"}, type : ItemTypes, command : CommandValues,
                 exit_code : ExitValues, text : TextValues]
Usages ==
  {NoUsage, [NoUsage EXCEPT !.t = "null"], [NoUsage EXCEPT !.t = "nonrec"]}
    \cup [t : {"rec"}, input_tokens : {Absent, Num(<<"7">>)},
          output_tokens : {Absent, NoneV, Num(<<"9">>)}]
ItemEventTypes == {Str(<<"item.started">>), Str(<<"item.completed">>)}
OtherEventTypes == {Absent, NoneV, Str(<<"thread.started">>), Num(<<"7">>)}
Payloads ==
  {NoPayload}
    \cup [t : {"rec"}, type : ItemEventTypes, item : Items, usage : {NoUsage}]
    \cup [t : {"rec"}, type : {Str(<<"turn.completed">>)}, item : {NoItem}, usage : Usages]
    \cup [t : {"rec"}, type : OtherEventTypes, item : OddItems, usage : {NoUsage}]
PlainRaws ==
  {<<"\n">>, <<" ", "\t", "\n">>, <<"oops", "\n">>, <<" ", "{", "oops", " ", "\n">>,
   <<"a", " ", "b">>}
RenderLines == {PlainLine(raw) : raw \in PlainRaws} \cup {JsonLine(pl) : pl \in Payloads}

RenderInit ==
  /\ r_line \in RenderLines
  /\ r_out = Rendered("idle", <<>>, "default", NoneV)
  /\ NoSched
  /\ NoStream
  /\ NoMain

\* formatted, tag, agent_text = render_line(line)
RenderStep ==
  /\ r_out.exc = "idle"
  /\ r_out' = render_line(r_line)
  /\ UNCHANGED <<r_line, svars, schedvars, histvars, mvars>>

RenderNext == RenderStep

RenderSpec == RenderInit /\ [][RenderNext]_vars

\* ================================================================ claims
TaskIndexes == 1 .. MaxTasks
Untouched(j) ==
  execCount[j] = 0 /\ revCount[j] = 0 /\ readCount[j] = 0 /\ noteCount[j] = 0

\* C1: once the status read after an executor that exited 0 is not
\* ready_for_review (None included), the task stays the current one, the
\* reviewer is not invoked for it in that round or later (it has one reviewer
\* invocation less than executor invocations), and the run ends with 1.
C1_ExecutorStatusGate ==
  \A i \in exec_bad :
    /\ i = cur
    /\ pc \in {"exec_notify", "returned", "raised"}
    /\ revCount[i] = execCount[i] - 1
    /\ (pc = "returned" => result = 1)
    /\ (RunOver => ExitStatus = 1)

\* C1 happens: in the second round of a task the status is read as None
\* after the executor and the run has returned
C1_Witness ==
  /\ pc = "returned"
  /\ cur \in exec_bad
  /\ execCount[cur] = 2
  /\ status = NoneV
  /\ result = 1

\* C2: with max_rounds >= 1 no task ever has more than max_rounds executor
\* or reviewer invocations, and a task whose reviewer rounds ended
\* max_rounds times with request_changes has had exactly max_rounds of each
\* and the run returns 1 without going on.
C2_RoundBudget ==
  max_rounds >= 1 =>
    \A i \in TaskIndexes :
      /\ execCount[i] <= max_rounds
      /\ revCount[i] <= max_rounds
      /\ changes[i] <= max_rounds
      /\ changes[i] = max_rounds =>
           /\ i = cur
           /\ pc \in {"rev_notify", "returned", "raised"}
           /\ execCount[i] = max_rounds
           /\ revCount[i] = max_rounds
           /\ (pc = "returned" => result = 1)
           /\ (RunOver => ExitStatus = 1)

\* C2 happens: two request_changes rounds with max_rounds = 2, run returned
C2_Witness ==
  /\ max_rounds = 2
  /\ cur >= 1
  /\ changes[cur] = 2
  /\ execCount[cur] = 2
  /\ pc = "returned"
  /\ result = 1

\* the tasks for which the code has met a reason to abort
AbortedTasks ==
  exec_bad \cup rev_bad
    \cup {i \in TaskIndexes : max_rounds >= 1 /\ changes[i] = max_rounds}
    \cup (IF exit_code # 0 THEN {cur} ELSE {})

\* C3: a task that aborts is the last one touched: no invocation, status read
\* or notification exists for a later task, the run does not return 0, and
\* the value returned is the abort code (the failing exit code, else 1).
C3_AbortStopsRun ==
  /\ \A i \in AbortedTasks :
       /\ i = cur
       /\ \A j \in TaskIndexes : j > i => Untouched(j)
       /\ pc \in {"exec_notify", "rev_notify", "returned", "raised"}
  /\ pc = "returned" /\ AbortedTasks # {} =>
       result = (IF exit_code # 0 THEN exit_code ELSE 1)
  /\ pc = "returned" /\ result # 0 => AbortedTasks = {cur}

\* C3 happens: the first of two tasks aborted, the second was never started
C3_Witness ==
  /\ Len(task_ids) = 2
  /\ cur = 1
  /\ pc = "returned"
  /\ result = 2
  /\ Untouched(2)

\* C4: when no binary can be started the run ends by returning 127 and no
\* exception leaves run_scheduler.
C4_BinaryMissingReturns127 ==
  binary_missing => pc = "returned" /\ result = 127 /\ exc = "none"

\* C9: a non-zero exit code of an invocation is returned as it is, at once:
\* no status read and no notification follows the failing invocation, and no
\* later task is touched.
C9_NonZeroExitAborts ==
  exit_code # 0 =>
    /\ pc = "returned"
    /\ result = exit_code
    /\ readCount[cur] = execCount[cur] + revCount[cur] - 1
    /\ noteCount[cur] = readCount[cur]
    /\ \A j \in TaskIndexes : j > cur => Untouched(j)

\* C9 happens: the reviewer of the second round exits with 127
C9_Witness ==
  /\ exit_code = 127
  /\ pc = "returned"
  /\ revCount[cur] = 2
  /\ execCount[cur] = 2

\* C10: once the status read after a reviewer that exited 0 is neither done
\* nor request_changes, the round counter keeps the value it had at the read,
\* no further executor runs for the task, and the run ends with 1.
C10_ReviewerStatusGate ==
  \A i \in rev_bad :
    /\ i = cur
    /\ pc \in {"rev_notify", "returned", "raised"}
    /\ rounds = rounds_at_read
    /\ execCount[i] = revCount[i]
    /\ (pc = "returned" => result = 1)
    /\ (RunOver => ExitStatus = 1)

\* C10 happens: in the second round the reviewer leaves ready_for_review
C10_Witness ==
  /\ cur \in rev_bad
  /\ pc = "returned"
  /\ status = READY_FOR_REVIEW
  /\ rounds = 1
  /\ result = 1

\* ------------------------------------------------ claims on one session
\* the lines handle h delivers in the session, read or still to come
LinesOf(h) ==
  SelectSeq(consumed, LAMBDA a : a.h = h)
ReadFrom(h) == [k \in 1 .. Len(LinesOf(h)) |-> LinesOf(h)[k].line]
AllOf(h) == ReadFrom(h) \o pending[h]
NonBlank(line) == line.json \/ Strip(line.raw) # <<>>
SessionEnded == popen = "ok" /\ s_pc \in {"returned", "raised"}

\* a completed agent_message event and its trimmed text, as the data model
\* of the events defines them
IsAgentMessageEvent(line) ==
  /\ line.json
  /\ line.payload.t = "rec"
  /\ line.payload.type = Str(<<"item.completed">>)
  /\ line.payload.item.t = "rec"
  /\ line.payload.item.type = Str(<<"agent_message">>)
TrimmedText(line) ==
  IF line.payload.item.text.t = "str" THEN Strip(line.payload.item.text.s) ELSE <<>>

RECURSIVE LastAgentText(_)
LastAgentText(arrivals) ==
  IF arrivals = <<>> THEN NoneV
  ELSE IF IsAgentMessageEvent(arrivals[Len(arrivals)].line)
       THEN Str(TrimmedText(arrivals[Len(arrivals)].line))
       ELSE LastAgentText(SubSeq(arrivals, 1, Len(arrivals) - 1))

RECURSIVE LastNonEmptyAgentText(_)
LastNonEmptyAgentText(arrivals) ==
  IF arrivals = <<>> THEN NoneV
  ELSE IF /\ IsAgentMessageEvent(arrivals[Len(arrivals)].line)
          /\ TrimmedText(arrivals[Len(arrivals)].line) # <<>>
       THEN Str(TrimmedText(arrivals[Len(arrivals)].line))
       ELSE LastNonEmptyAgentText(SubSeq(arrivals, 1, Len(arrivals) - 1))

\* C5 as stated: the summary a session returns is the trimmed text, the
\* empty string included, of the last completed agent_message event read
\* from either handle, and None when there was none.
C5_SummaryIsLastAgentText ==
  s_pc = "returned" /\ s_result.kind = "tuple" =>
    s_result.summary = LastAgentText(consumed)

\* C5 amended: the accumulator, and the summary a session returns, is the
\* trimmed text of the last completed agent_message event read from either
\* handle whose trimmed text is not empty; None when no such event was read.
C5_SummaryIsLastNonEmptyAgentText ==
  /\ s_pc = "select" => last_agent_message = LastNonEmptyAgentText(consumed)
  /\ s_pc = "returned" /\ s_result.kind = "tuple" =>
       s_result.summary = LastNonEmptyAgentText(consumed)

\* C5 happens: " hi " on stdout, then an empty agent message on stderr
C5_Witness ==
  /\ s_pc = "returned"
  /\ Len(consumed) >= 2
  /\ consumed[1] = Arrival("stdout", AgentMessage(Str(<<" ", "hi", " ">>)))
  /\ consumed[2] = Arrival("stderr", AgentMessage(Str(<<" ">>)))
  /\ s_result.summary = Str(<<"hi">>)

\* C6: when a session is over, the lines written to each sink are exactly
\* the non-blank lines of the matching handle, each once, in their order.
C6_EveryLineWrittenOnce ==
  SessionEnded => \A h \in Handles : written[h] = SelectSeq(AllOf(h), NonBlank)

\* C7: no line ends a session: the loop never raises, and it returns only
\* after every line of both handles was read.
C7_NoLineAbortsSession ==
  popen = "ok" =>
    /\ s_pc # "raised"
    /\ s_pc = "returned" => \A h \in Handles : pending[h] = <<>>

\* ------------------------------------------------- claims on render_line
\* The mapping of event shapes to display text, tag and summary, written
\* down from the renderer's contract; agent_tag is the tag of a completed
\* agent message.
Marker(v) == IF v.t \in {"absent", "null"} THEN <<"None">> ELSE v.s
Trimmed(v) == IF v.t = "str" THEN Strip(v.s) ELSE <<>>
Labelled(bare, spaced, text) == IF text = <<>> THEN <<bare>> ELSE <<spaced>> \o text

MappedStarted(item) ==
  IF /\ item.type = Str(<<"command_execution">>)
     /\ item.command.t = "str"
     /\ item.command.s # <<>>
  THEN Rendered("none", <<"[command.start] ">> \o item.command.s, "default", NoneV)
  ELSE Rendered("none", <<"[item.start] ">> \o item.type.s, "default", NoneV)

MappedCompleted(item, agent_tag) ==
  CASE item.type = Str(<<"command_execution">>) ->
         Rendered("none", <<"[command.done] exit=">> \o Marker(item.exit_code),
                  "default", NoneV)
    [] item.type = Str(<<"reasoning">>) ->
         Rendered("none", Labelled("[reasoning]", "[reasoning] ", Trimmed(item.text)),
                  "reasoning", NoneV)
    [] item.type = Str(<<"agent_message">>) ->
         Rendered("none", Labelled("[agent]", "[agent] ", Trimmed(item.text)),
                  agent_tag, Str(Trimmed(item.text)))
    [] OTHER -> Rendered("none", <<"[item.done] ">> \o item.type.s, "default", NoneV)

MappedEvent(payload, agent_tag) ==
  CASE payload.type = Str(<<"item.started">>) -> MappedStarted(payload.item)
    [] payload.type = Str(<<"item.completed">>) ->
         MappedCompleted(payload.item, agent_tag)
    [] payload.type = Str(<<"turn.completed">>) ->
         Rendered("none",
                  <<"[turn.done] input_tokens=">> \o Marker(payload.usage.input_tokens)
                    \o <<" output_tokens=">> \o Marker(payload.usage.output_tokens),
                  "default", NoneV)
    [] OTHER -> Rendered("none", <<"[event] ">> \o payload.type.s, "default", NoneV)

Mapped(line, agent_tag) ==
  IF line.json THEN MappedEvent(line.payload, agent_tag)
  ELSE Rendered("none", Strip(line.raw), "default", NoneV)

\* the shapes the mapping is defined on: text that is no JSON document, and
\* event records with a string type whose item (with a string type, a string
\* or no command, a string or no text) or usage is a record
RecognizedItem(item) ==
  /\ item.t = "rec"
  /\ item.type.t = "str"
  /\ item.command.t \in {"absent", "str"}
  /\ item.text.t \in {"absent", "null", "str"}
Recognized(line) ==
  \/ ~line.json
  \/ /\ line.payload.t = "rec"
     /\ line.payload.type.t = "str"
     /\ line.payload.type \in ItemEventTypes => RecognizedItem(line.payload.item)
     /\ line.payload.type = Str(<<"turn.completed">>) => line.payload.usage.t = "rec"

\* C8 as stated: on every recognized shape render_line gives the mapped
\* text, tag and summary, the tag of a completed agent message being
\* agent_message.
C8_RendersAsMappedAgentMessageTag ==
  r_out.exc # "idle" /\ Recognized(r_line) => r_out = Mapped(r_line, "agent_message")

\* C8 amended: the same, the tag of a completed agent message being agent;
\* the tag is always one of default, agent, reasoning.
C8_RendersAsMapped ==
  /\ r_out.exc # "idle" /\ Recognized(r_line) => r_out = Mapped(r_line, "agent")
  /\ r_out.tag \in {"default", "agent", "reasoning"}

\* C8 happens: a completed agent message with padded text was rendered
C8_Witness ==
  /\ r_line = AgentMessage(Str(<<" ", "h", " ", "i", "\n">>))
  /\ r_out = Rendered("none", <<"[agent] ", "h", " ", "i">>, "agent",
                      Str(<<"h", " ", "i">>))

\* ------------------------------------- claims on run_scheduler, continued
\* the transition run_scheduler takes from a notification point when the
\* notification succeeds: it depends on the status just read alone
AfterExecutorNote ==
  IF status = READY_FOR_REVIEW
  THEN pc' = "reviewer"
  ELSE pc' = "returned" /\ result' = 1
AfterReviewerNote ==
  CASE status = DONE -> pc' = "for"
    [] status = REQUEST_CHANGES ->
         IF rounds + 1 >= max_rounds
         THEN pc' = "returned" /\ result' = 1
         ELSE pc' = "while"
    [] OTHER -> pc' = "returned" /\ result' = 1

\* C11: whatever becomes of the notification attempt, the step that makes it
\* is the step a successful notification is followed by, and no exception
\* leaves run_scheduler.
C11_NotificationFailureIsHarmless ==
  [][/\ pc = "exec_notify" => AfterExecutorNote /\ exc' = "none"
     /\ pc = "rev_notify" => AfterReviewerNote /\ exc' = "none"]_vars

\* C12: a task has an executor invocation only after the status of the task
\* before it was read as done after a reviewer round, and a run in which the
\* status of every task was read as done this way ends by returning 0.
C12_TasksInSuppliedOrder ==
  /\ \A i \in TaskIndexes : i > 1 /\ execCount[i] > 0 => (i - 1) \in done_read
  /\ RunOver /\ done_read = 1 .. Len(task_ids) => pc = "returned" /\ result = 0


\* what the registry holds for the task at index i, as a status
StoredStatus(i) ==
  IF store[TaskOf(i)].t = "dict" /\ store[TaskOf(i)].status.t = "str"
  THEN store[TaskOf(i)].status
  ELSE NoneV

\* C15: at every decision point the status tested was read after the last
\* invocation returned (a read of its own for every invocation of the task, and
\* the value is what the registry holds now), and no step of the scheduler
\* other than the run of an agent process changes the registry.
C15_DecisionsUseFreshStatus ==
  /\ [](pc \in {"exec_notify", "rev_notify"} =>
          /\ readCount[cur] = execCount[cur] + revCount[cur]
          /\ registry_ok
          /\ status = StoredStatus(cur))
  /\ [][pc \notin {"executor", "reviewer"} => UNCHANGED <<store, registry_ok>>]_vars

\* C15 happens: the fourth status read of a task, after the reviewer of its
\* second round, is done
C15_Witness ==
  /\ pc = "rev_notify"
  /\ execCount[cur] = 2
  /\ revCount[cur] = 2
  /\ readCount[cur] = 4
  /\ status = DONE


\* the feedback a reviewer summary turns into
FeedbackOf(summary) ==
  IF summary.t = "str" /\ summary.s # <<>> THEN summary.s
  ELSE <<"No reviewer summary captured.">>
InRound == pc \in {"exec_status", "exec_notify", "reviewer", "rev_status", "rev_notify"}

\* the feedback is held only after a request_changes round of the task, it is
\* what the next executor is about to get only right after such a round
FeedbackOnlyAfterChanges ==
  /\ reviewer_feedback # NoneV => cur >= 1 /\ changes[cur] >= 1 /\ rounds >= 1
  /\ pc \in {"while", "executor"} =>
       (reviewer_feedback # NoneV <=> status = REQUEST_CHANGES /\ revCount[cur] >= 1)

\* the prompt of an executor invocation carries no feedback in the first round
\* of a task and the summary (or the placeholder) of the reviewer round just
\* before it in a later round
FeedbackPassedIsLatest ==
  prompt.role = "executor" =>
    /\ prompt.task_id = TaskOf(cur)
    /\ prompt.body =
         IF execCount[cur] = 1 THEN <<>>
         ELSE <<"Reviewer feedback:">> \o FeedbackOf(reviewer_summary)

\* C16 as stated: the feedback is non-empty only after a request_changes
\* round, it is gone once the next executor round has consumed it, and what an
\* executor gets is the summary of the reviewer round just before it.
C16_FeedbackDiscardedOnceConsumed ==
  /\ FeedbackOnlyAfterChanges
  /\ FeedbackPassedIsLatest
  /\ InRound => reviewer_feedback = NoneV

\* C16 as the code has it: the feedback is non-empty only after a
\* request_changes round, the executor round that consumes it leaves it in
\* place until the status after that round's reviewer is read, where it is
\* replaced or the task ends, and what an executor gets is the summary of the
\* reviewer round just before it.
C16_FeedbackReplacedBeforeReuse ==
  /\ FeedbackOnlyAfterChanges
  /\ FeedbackPassedIsLatest
  /\ InRound /\ execCount[cur] >= 2 => reviewer_feedback # NoneV
  /\ pc = "executor" /\ execCount[cur] >= 1 =>
       reviewer_feedback = Str(FeedbackOf(reviewer_summary))

\* C16 happens: the third executor of a task has run with the summary of the
\* second reviewer round as its feedback
C16_Witness ==
  /\ pc = "exec_status"
  /\ execCount[cur] = 3
  /\ reviewer_summary = Str(<<"summary B">>)
  /\ prompt.body = <<"Reviewer feedback:", "summary B">>
  /\ last_note.response = <<"summary B">>


\* the step that takes the decision on a request_changes status
DecidesOnChanges ==
  pc = "rev_notify" /\ status = REQUEST_CHANGES /\ pc' # "raised"

\* C17: the first executor invocation of every task starts with the round
\* counter at 0 and without feedback, and its prompt carries none; while the
\* task stays the same the counter changes only by the step that decides on a
\* request_changes status, which adds exactly one.
C17_RoundStateIsPerTask ==
  /\ [](/\ pc = "executor" /\ execCount[cur] = 0 =>
             rounds = 0 /\ reviewer_feedback = NoneV
        /\ prompt.role = "executor" /\ execCount[cur] = 1 => prompt.body = <<>>)
  /\ [][cur' = cur =>
          IF DecidesOnChanges THEN rounds' = rounds + 1 ELSE rounds' = rounds]_vars

\* C17 happens: the second task is about to get its first executor after the
\* first task went through a request_changes round
C17_Witness ==
  /\ cur = 2
  /\ pc = "executor"
  /\ execCount[2] = 0
  /\ changes[1] >= 1
  /\ executor_summary # NoneV
  /\ rounds = 0
  /\ reviewer_feedback = NoneV


\* between the return of a clean invocation and its notification
AwaitsNote(i) ==
  i = cur /\ pc \in {"exec_status", "exec_notify", "rev_status", "rev_notify"}
\* the status re-read raised: the registry file holds no mapping
ReadFailed == pc = "raised" /\ exc = "ValueError"
NoteStatusOf(st) == IF st.t = "str" /\ st.s # <<>> THEN st.s ELSE <<"unknown">>

\* the notification attempts of a task never run ahead of its clean
\* invocations nor of its status reads, and lag by one at most
NotesTrail(i) ==
  /\ noteCount[i] <= okCount[i]
  /\ okCount[i] <= noteCount[i] + 1
  /\ noteCount[i] <= readCount[i]
  /\ readCount[i] <= noteCount[i] + 1
  /\ (i = cur /\ pc \in {"exec_notify", "rev_notify"} <=> readCount[i] = noteCount[i] + 1)

\* the last notification of the current task carries the role of the
\* invocation it follows, the task id and the status read for it
LastNoteMatches ==
  cur >= 1 /\ noteCount[cur] >= 1 /\ pc \notin {"exec_notify", "rev_notify"} =>
    /\ last_note.role = (IF noteCount[cur] % 2 = 1 THEN "executor" ELSE "reviewer")
    /\ last_note.task_id = TaskOf(cur)
    /\ last_note.status = NoteStatusOf(status)

\* a one-task run of one clean executor round and one clean reviewer round
TwoNotesScenario ==
  Len(task_ids) = 1 /\ pc = "returned" /\ result = 0 /\ execCount[1] = 1
    /\ revCount[1] = 1 => noteCount[1] = 2

\* C18 as stated: every invocation that exited 0 has got its one notification
\* attempt, after the status re-read, by the time anything else happens, with
\* the role, task id and status read; an invocation that did not exit 0 has
\* none; the clean one-task run makes two attempts.
C18_OneNotePerCleanInvocation ==
  /\ \A i \in TaskIndexes :
       NotesTrail(i) /\ (~AwaitsNote(i) => noteCount[i] = okCount[i])
  /\ LastNoteMatches
  /\ TwoNotesScenario

\* C18 as the code has it: the same, for the invocations whose status re-read
\* does not raise; when the re-read raises the run ends with the clean
\* invocation left without a notification attempt.
C18_OneNotePerStatusRead ==
  /\ \A i \in TaskIndexes :
       /\ NotesTrail(i)
       /\ ~AwaitsNote(i) /\ ~(i = cur /\ ReadFailed) => noteCount[i] = okCount[i]
       /\ i = cur /\ ReadFailed => okCount[i] = noteCount[i] + 1
  /\ LastNoteMatches
  /\ TwoNotesScenario

\* C18 happens: one task, one clean executor round and one clean reviewer
\* round, two notification attempts, the last one for the reviewer with done
C18_Witness ==
  /\ Len(task_ids) = 1
  /\ pc = "returned"
  /\ result = 0
  /\ okCount[1] = 2
  /\ noteCount[1] = 2
  /\ last_note.role = "reviewer"
  /\ last_note.status = <<"done">>


\* an executor or reviewer invocation is made in this step
Invokes == execCount' # execCount \/ revCount' # revCount

\* C20: never more than one agent process is alive, an invocation starts only
\* when no process of an earlier one is left unwaited, and whenever the
\* scheduler goes on after an invocation its process has been waited on.
C20_OneAgentProcessAtATime ==
  /\ [](/\ live <= 1
        /\ pc \notin {"returned", "raised"} => live = 0)
  /\ [][Invokes => live = 0]_vars

\* C20 happens: the executor of the second task has returned, after the two
\* processes of the first task, and no process is left alive
C20_Witness ==
  /\ cur = 2
  /\ pc = "exec_status"
  /\ execCount[1] + revCount[1] >= 2
  /\ execCount[2] = 1
  /\ live = 0


\* C21: when run_scheduler has returned 0, every task of the list has had an
\* executor and a reviewer invocation and its status was read as done after
\* a reviewer round, whatever max_rounds is.
C21_ZeroMeansEveryTaskDone ==
  pc = "returned" /\ result = 0 =>
    \A i \in 1 .. Len(task_ids) :
      execCount[i] >= 1 /\ revCount[i] >= 1 /\ i \in done_read


\* the rounds a task can get: max_rounds, none when it is not positive
RoundAllowance == IF max_rounds > 0 THEN max_rounds ELSE 0

\* no task has more invocations of either role than rounds allowed, and a
\* further round of a task follows a request_changes status and nothing else
WithinAllowance ==
  \A i \in TaskIndexes :
    /\ execCount[i] <= RoundAllowance
    /\ revCount[i] <= RoundAllowance
    /\ revCount[i] <= execCount[i]
    /\ execCount[i] <= changes[i] + 1

\* C22: the run ends, whatever the task list, max_rounds and the statuses
\* found, and until then no task gets more than max_rounds invocations of
\* either role, each round after the first following a request_changes status.
C22_RunTerminatesWithinBudget ==
  /\ []WithinAllowance
  /\ <>RunOver

\* C22 happens: the run is over after a task used all of three rounds
C22_Witness ==
  /\ RunOver
  /\ max_rounds = 3
  /\ execCount[cur] = 3
  /\ revCount[cur] = 3
  /\ changes[cur] = 3

\* ------------------------------------------------------- claims on main
\* the external processes launched so far: agents and notifiers
RECURSIVE SumTo(_, _)
SumTo(f, n) == IF n = 0 THEN 0 ELSE f[n] + SumTo(f, n - 1)
Launched ==
  promptCount + SumTo(execCount, MaxTasks) + SumTo(revCount, MaxTasks)
    + SumTo(noteCount, MaxTasks)

\* the positions of the registry that --all has to run: a task key whose
\* status is not the string done
IsDoneEntry(entry) == entry.t = "dict" /\ entry.status = DONE
KeptPositions ==
  {k \in 1 .. Len(registry_keys) :
     /\ registry_keys[k] # SCHEMA_VERSION
     /\ ~IsDoneEntry(store[registry_keys[k]])}
NthKept(j) ==
  CHOOSE k \in KeptPositions : Cardinality({m \in KeptPositions : m <= k}) = j
AllMode == args_all /\ ~TasksGiven(args_tasks) /\ registry_ok

\* C13: in --all mode the step of main that selects the tasks hands the
\* scheduler the registry keys in file order, schema_version and the tasks
\* whose status is done left out and every other task kept; when none is
\* left main returns 0 and no external process has been launched.
C13_AllModeSchedulesPending ==
  [][m_pc = "main" /\ AllMode =>
       IF KeptPositions = {}
       THEN m_pc' = "returned" /\ m_result' = 0 /\ pc' = "idle" /\ Launched' = 0
       ELSE /\ m_pc' = "scheduler"
            /\ pc' = "for"
            /\ Len(task_ids') = Cardinality(KeptPositions)
            /\ \A j \in 1 .. Len(task_ids') :
                 task_ids'[j] = registry_keys[NthKept(j)]]_vars

\* C13 happens: the registry lists schema_version, a done task and a pending
\* one, and the scheduler was entered with the pending one alone
C13_Witness ==
  /\ args_all
  /\ m_pc = "scheduler"
  /\ pc = "for"
  /\ registry_keys = <<SCHEMA_VERSION, AllIds[1], AllIds[2]>>
  /\ IsDoneEntry(store[AllIds[1]])
  /\ task_ids = <<AllIds[2]>>

\* C14: once main has looked at its arguments, a command line that carries
\* both --all and --tasks, whatever follows --tasks, has made it return 2, and
\* no external process has been launched.
C14_BothModeFlagsReturn2 ==
  args_all /\ args_tasks.given /\ m_pc # "main" =>
    m_pc = "returned" /\ m_result = 2 /\ Launched = 0

\* ------------------------------------- claims on one session, continued
\* a handle leaves the selector in this step
Deregisters(h) == h \in registered /\ h \notin registered'

\* the loop ends when both handles are at end-of-stream, not before: the
\* session has returned only with both handles deregistered and every line
\* read, and what it returns is the exit status waited for
ReturnsAfterBothClosed ==
  s_pc = "returned" /\ popen = "ok" =>
    /\ registered = {}
    /\ \A h \in Handles : pending[h] = <<>>
    /\ s_result = TupleResult(proc_code, last_agent_message)

\* end-of-stream on a handle takes that handle alone out of the selector, and
\* the loop goes on
EndOfStreamDeregistersOne ==
  \A h \in Handles :
    Deregisters(h) =>
      /\ pending[h] = <<>>
      /\ registered' = registered \ {h}
      /\ s_pc' = "select"
      /\ s_result' = s_result

\* C19: the session returns only after both handles were deregistered, each
\* by its own end-of-stream, with the exit status waited for; and a session
\* whose process was started returns in the end.
C19_LoopEndsWhenBothClosed ==
  /\ []ReturnsAfterBothClosed
  /\ [][EndOfStreamDeregistersOne]_vars
  /\ (s_pc = "select" ~> s_pc = "returned")
====
